---- MODULE Spec2Model ----
(***************************************************************************)
(* The three-stage pipeline of src/: downloader.py (Fetcher),              *)
(* transcriber.py (Transcriber) and summarizer.py (Summarizer), with the   *)
(* data directories they share: data/audio, data/transcripts,              *)
(* data/summaries and data/metadata.  One stage runs at a time; each loop  *)
(* iteration of a stage is one action, whose input says how far the        *)
(* iteration got before an exception (or the death of the process).        *)
(***************************************************************************)
EXTENDS Naturals, Integers, Sequences, FiniteSets, TLC

\* ------------------------------------------------------------------ bounds
\* the longest list of entries a url resolves to
MaxEntries == 2
\* the most failures (an exception, a failed retrieval or conversion, the
\* death of a process) the environment injects in one behaviour
MaxFaults == 1
\* the longest text abstractive_summary is called on
MaxTextLen == 12000

\* --------------------------------------------------------------- constants
\* summarizer.py:85  if len(text) < 100: continue
MinLen == 100
\* summarizer.py:42 max_chunk
MaxChunk == 5000

\* The video ids.  Every file of the pipeline is named by one id and no
\* iteration touches a file of another id, so two ids show every interaction
\* between two items of a batch.
Ids == {1, 2}
\* an entry of info["entries"]: a descriptor (its id) or None (0)
NoneEntry == 0
Exts == {"mp3", "webm"}
\* the transcripts the speech collaborator may return: len is the length of
\* the joined text, pad the whitespace at its ends (" ".join of the trimmed
\* segment texts starts or ends with a space when an end segment is empty)
Texts == {[len |-> MinLen - 1, pad |-> 0], [len |-> MinLen, pad |-> 0],
          [len |-> MinLen, pad |-> 1]}

VARIABLES
    audio,      \* data/audio:       id -> set of extensions e with <id>.<e> present
    txt,        \* data/transcripts: id -> the file <id>.txt
    seg,        \* data/transcripts: id -> the file <id>.json
    summ,       \* data/summaries:   id -> the file <id>_summary.txt
    meta,       \* data/metadata:    id -> the file <id>.json
    run,        \* the stage run in progress, or the last one
    queue,      \* the items the running loop has still to visit
    results,    \* downloader.download's list `results`
    useExtractive, \* summarizer.main's use_extractive
    failed,     \* ids whose iteration raised into the except clause, this run
    used,       \* summarization strategies invoked, this run
    ev,         \* what the last step did
    faults,     \* failures injected so far
    text,       \* abstractive_summary: the length of its argument `text`
    chunks,     \* abstractive_summary: its list `chunks`
    summaries,  \* abstractive_summary: its list `summaries`
    calls,      \* abstractive_summary: the arguments given to `summarizer`, in order
    joined,     \* abstractive_summary: the value returned
    at          \* abstractive_summary: where the call is

pipeVars == <<audio, txt, seg, summ, meta, run, queue, results, useExtractive,
              failed, used, ev, faults>>
chunkVars == <<text, chunks, summaries, calls, joined, at>>
vars == <<pipeVars, chunkVars>>

\* ------------------------------------------------------------------- files
\* A text file: absent, or present with the length of its text and of the
\* whitespace at its ends; complete is FALSE when open(..., "w") truncated it
\* and the write did not finish.
NoFile == [exists |-> FALSE, len |-> 0, pad |-> 0, complete |-> FALSE]
PartialFile == [exists |-> TRUE, len |-> 0, pad |-> 0, complete |-> FALSE]
TextFile(t) == [exists |-> TRUE, len |-> t.len, pad |-> t.pad, complete |-> TRUE]

\* A metadata file: absent, corrupt (truncated by a write that did not finish),
\* or a JSON object, kept as the sequence of its <<key, value>> members in order.
NoMeta == [st |-> "absent", kv |-> <<>>]
CorruptMeta == [st |-> "corrupt", kv |-> <<>>]

Null == <<"null", 0, "">>
AudioPath(i, e) == <<"audio", i, e>>
TranscriptPath(i) == <<"transcripts", i, "txt">>
SummaryPath(i) == <<"summaries", i, "_summary.txt">>
Title(i) == <<"title", i, "">>
WebpageUrl(i) == <<"url", i, "">>
Duration(i) == <<"duration", i, "">>
VideoId(i) == <<"id", i, "">>

\* --------------------------------------------------------- dict and json
HasKey(d, k) == \E n \in 1..Len(d) : d[n][1] = k
Get(d, k) == d[CHOOSE n \in 1..Len(d) : d[n][1] = k][2]
\* d[k] = v of a Python dict: a present key keeps its place, a new key goes last
DictSet(d, k, v) ==
    IF HasKey(d, k)
    THEN [n \in 1..Len(d) |-> IF d[n][1] = k THEN <<k, v>> ELSE d[n]]
    ELSE Append(d, <<k, v>>)
\* json.dump(meta, f): the file holds the members in the dict's order
JsonDump(d) == [st |-> "ok", kv |-> d]
\* json.load(f) of a file json.dump wrote: the dict with those members
JsonLoad(f) == f.kv

\* sorted(S) for a set of ids
RECURSIVE SortedSeq(_)
SortedSeq(S) ==
    IF S = {} THEN <<>>
    ELSE LET m == CHOOSE x \in S : \A y \in S : x <= y
         IN <<m>> \o SortedSeq(S \ {m})

Stage == IF run.how = "running" THEN run.kind ELSE "idle"
NoEv == [op |-> "none", id |-> 0, outcome |-> "none", point |-> "none"]

InitPipeline ==
    /\ audio = [i \in Ids |-> {}]
    /\ txt = [i \in Ids |-> NoFile]
    /\ seg = [i \in Ids |-> "absent"]
    /\ summ = [i \in Ids |-> "absent"]
    /\ meta = [i \in Ids |-> NoMeta]
    /\ run = [kind |-> "none", how |-> "clean", prev |-> "other", crashId |-> 0]
    /\ queue = <<>>
    /\ results = <<>>
    /\ useExtractive = FALSE
    /\ failed = {}
    /\ used = {}
    /\ ev = NoEv
    /\ faults = 0

\* no call of abstractive_summary under way
NoCall ==
    /\ text = 0
    /\ chunks = <<>>
    /\ summaries = <<>>
    /\ calls = <<>>
    /\ joined = <<>>
    /\ at = "none"

Init == InitPipeline /\ NoCall

\* kind: the stage; how: "running", or how the run ended ("clean", "failed":
\* some iteration raised, "crashed": the process died); prev: how the run
\* just before ended when it was a run of the same stage, else "other";
\* crashId: the item that run died on (0: none)
NewRun(kind) ==
    [kind |-> kind, how |-> "running",
     prev |-> IF run.kind = kind THEN run.how ELSE "other",
     crashId |-> IF run.kind = kind /\ run.how = "crashed" THEN ev.id ELSE 0]

\* the process of a stage ends: its locals are gone
Exit(how) ==
    /\ run' = [run EXCEPT !.how = how, !.prev = "other", !.crashId = 0]
    /\ queue' = <<>>
    /\ results' = <<>>
    /\ useExtractive' = FALSE
    /\ failed' = {}
    /\ used' = {}

\* the environment injects a failure, or does not
Fault == faults < MaxFaults /\ faults' = faults + 1
NoFault == UNCHANGED faults

\* the loop is over and the stage returns
Return ==
    /\ queue = <<>>
    /\ Exit(IF failed = {} THEN "clean" ELSE "failed")
    /\ ev' = [NoEv EXCEPT !.op = "end"]
    /\ NoFault

\* ----------------------------------------------------------------- Fetcher
EntryLists == UNION {[1..n -> Ids \cup {NoneEntry}] : n \in 1..MaxEntries}

\* (variant) no search for a file with the prefix
AudioLookupNoFallback(i, exts) ==
    IF "mp3" \in exts THEN {AudioPath(i, "mp3")} ELSE {Null}
\* downloader.py:58-63: the expected mp3, else a file with the prefix, else None
AudioLookup(i, exts) ==
    IF "mp3" \in exts THEN {AudioPath(i, "mp3")}
    ELSE IF exts # {} THEN {AudioPath(i, e) : e \in exts}
    ELSE {Null}

\* downloader.py:65-71
FetchMeta(i, path) ==
    << <<"video_id", VideoId(i)>>, <<"title", Title(i)>>,
       <<"webpage_url", WebpageUrl(i)>>, <<"duration", Duration(i)>>,
       <<"audio_path", path>> >>

\* downloader.py:38-40: extract_info resolves the url to its entries; under
\* ignoreerrors it returns None for a url it cannot resolve, and info.get
\* raises outside any try: the process ends
StartFetch ==
    /\ Stage = "idle"
    /\ UNCHANGED chunkVars
    /\ \/ \E es \in EntryLists :
          /\ run' = NewRun("fetch")
          /\ queue' = es
          /\ NoFault
       \/ /\ Fault
          /\ run' = [NewRun("fetch") EXCEPT !.how = "crashed", !.prev = "other", !.crashId = 0]
          /\ queue' = <<>>
    /\ results' = <<>>
    /\ failed' = {}
    /\ used' = {}
    /\ ev' = [NoEv EXCEPT !.op = "start"]
    /\ UNCHANGED <<audio, txt, seg, summ, meta, useExtractive>>

\* what ydl.download([webpage_url]) leaves in data/audio, under ignoreerrors:
\*   "mp3"   the audio was retrieved and converted: <id>.mp3
\*   "webm"  the audio was retrieved, the conversion was not done: <id>.webm
\*   "error" the retrieval failed; ignoreerrors reports it and returns
\*   "raise" the retrieval failed with an exception ignoreerrors lets through
DownloadOutcomes == {"mp3", "webm", "error", "raise"}
AfterDownload(exts, out) ==
    IF out \in Exts THEN exts \cup {out} ELSE exts

\* downloader.py:43-78, one iteration of the loop
FetchItem ==
    /\ Stage = "fetch"
    /\ UNCHANGED chunkVars
    /\ queue # <<>>
    /\ LET entry == Head(queue) IN
       /\ queue' = Tail(queue)
       /\ IF entry = NoneEntry
          THEN /\ ev' = [op |-> "fetch", id |-> 0, outcome |-> "none_entry", point |-> "none"]
               /\ UNCHANGED <<audio, meta, results, failed, faults>>
          ELSE \E out \in DownloadOutcomes :
               /\ IF out = "mp3" THEN NoFault ELSE Fault
               /\ audio' = [audio EXCEPT ![entry] = AfterDownload(@, out)]
               /\ IF out = "raise"
                  THEN /\ failed' = failed \cup {entry}
                       /\ ev' = [op |-> "fetch", id |-> entry, outcome |-> "exc", point |-> "download"]
                       /\ UNCHANGED <<meta, results>>
                  ELSE \E path \in AudioLookup(entry, audio'[entry]) :
                       /\ meta' = [meta EXCEPT ![entry] = JsonDump(FetchMeta(entry, path))]
                       /\ results' = Append(results, FetchMeta(entry, path))
                       /\ ev' = [op |-> "fetch", id |-> entry,
                                 outcome |-> IF out = "error" THEN "silent" ELSE "ok",
                                 point |-> "none"]
                       /\ UNCHANGED failed
    /\ UNCHANGED <<txt, seg, summ, run, useExtractive, used>>

\* the process dies between ydl.download and the end of the metadata write:
\* killed, or open/json.dump raising at downloader.py:75-76, outside any try
FetchCrash ==
    /\ Stage = "fetch"
    /\ UNCHANGED chunkVars
    /\ queue # <<>>
    /\ LET entry == Head(queue) IN
       /\ entry # NoneEntry
       /\ \E out \in DownloadOutcomes \ {"raise"}, point \in {"meta_open", "meta_write"} :
          /\ audio' = [audio EXCEPT ![entry] = AfterDownload(@, out)]
          /\ meta' = [meta EXCEPT ![entry] = IF point = "meta_write" THEN CorruptMeta ELSE @]
          /\ ev' = [op |-> "fetch", id |-> entry, outcome |-> "crash", point |-> point]
    /\ Fault
    /\ Exit("crashed")
    /\ UNCHANGED <<txt, seg, summ>>

\* downloader.py:80 return results
EndFetch ==
    /\ Stage = "fetch"
    /\ UNCHANGED chunkVars
    /\ Return
    /\ UNCHANGED <<audio, txt, seg, summ, meta>>

\* ------------------------------------------------- the metadata update
\* (variant) the update writes a record of its own instead of the one it read
MetaUpdateClobber(m, key, val, point) ==
    IF m.st = "absent" THEN m
    ELSE IF point = "meta_write" THEN CorruptMeta
    ELSE IF point = "none" THEN JsonDump(<< <<key, val>> >>)
    ELSE m
\* (variant) the update creates the record when the file is missing
MetaUpdateCreate(m, key, val, point) ==
    IF point = "meta_write" THEN CorruptMeta
    ELSE IF point = "none"
         THEN JsonDump(DictSet(IF m.st = "absent" THEN <<>> ELSE JsonLoad(m), key, val))
    ELSE m
\* transcriber.py:66-72 and summarizer.py:98-104: read-modify-write of the
\* record when the file exists.  point says where the iteration stopped:
\* "meta_open" the open for writing raised, "meta_write" json.dump did not
\* finish after the open truncated the file, "none" nothing stopped it.
MetaUpdate(m, key, val, point) ==
    IF m.st = "absent" THEN m
    ELSE IF point = "meta_write" THEN CorruptMeta
    ELSE IF point = "none" THEN JsonDump(DictSet(JsonLoad(m), key, val))
    ELSE m

\* the points of the metadata update an iteration can stop at, given the file
MetaPoints(m) ==
    IF m.st = "absent" THEN {}
    ELSE IF m.st = "corrupt" THEN {"meta_read"}     \* json.load always raises
    ELSE {"meta_read", "meta_open", "meta_write"}
\* whether the iteration can run to its end
MetaPasses(m) == m.st # "corrupt"

\* ------------------------------------------------------------- Transcriber
\* (variant) the Transcriber works from the Metadata Records
AudioFilesFromMeta == SortedSeq({i \in Ids : meta[i].st = "ok"})
\* transcriber.py:44 sorted(AUDIO_DIR.glob("*.mp3")), by stem
AudioFiles == SortedSeq({i \in Ids : "mp3" \in audio[i]})

\* (variant) the checkpoint looks for the text file in the audio directory
TransSkipWrongDir(i) == "txt" \in audio[i]
\* (variant) the checkpoint wants both files of the Transcript Artifact
TransSkipBothFiles(i) == txt[i].exists /\ seg[i] = "ok"
\* transcriber.py:53 the resume checkpoint
TransSkip(i) == txt[i].exists

\* where an iteration of the Transcriber can stop, in program order
TransOrder == <<"call", "txt_open", "txt_write", "seg_open", "seg_write",
                "meta_read", "meta_open", "meta_write", "none">>
Rank(order, p) == CHOOSE n \in 1..Len(order) : order[n] = p
TransBefore(p, q) == Rank(TransOrder, p) < Rank(TransOrder, q)
TransPoints(i) ==
    {"call", "txt_open", "txt_write", "seg_open", "seg_write"} \cup MetaPoints(meta[i])

\* transcriber.py:59-60
TransTxt(f, t, point) ==
    IF TransBefore(point, "txt_write") THEN f
    ELSE IF point = "txt_write" THEN PartialFile
    ELSE TextFile(t)
\* transcriber.py:62-63
TransSeg(f, point) ==
    IF TransBefore(point, "seg_write") THEN f
    ELSE IF point = "seg_write" THEN "partial"
    ELSE "ok"
\* transcriber.py:66-72
TransMeta(m, i, point) ==
    IF TransBefore(point, "meta_write") THEN m
    ELSE MetaUpdate(m, "transcript_path", TranscriptPath(i), point)

\* the files after an iteration on i that stopped at point (transcript t)
TransEffect(i, t, point) ==
    /\ txt' = [txt EXCEPT ![i] = TransTxt(@, t, point)]
    /\ seg' = [seg EXCEPT ![i] = TransSeg(@, point)]
    /\ meta' = [meta EXCEPT ![i] = TransMeta(@, i, point)]

\* transcriber.py:42-45; WhisperModel(...) raising ends the process
StartTrans ==
    /\ Stage = "idle"
    /\ UNCHANGED chunkVars
    /\ \E loaded \in BOOLEAN :
        IF loaded
        THEN /\ run' = NewRun("trans")
             /\ queue' = AudioFiles
             /\ NoFault
        ELSE /\ Fault
             /\ run' = [NewRun("trans") EXCEPT !.how = "crashed", !.prev = "other", !.crashId = 0]
             /\ queue' = <<>>
    /\ results' = <<>>
    /\ failed' = {}
    /\ used' = {}
    /\ ev' = [NoEv EXCEPT !.op = "start"]
    /\ UNCHANGED <<audio, txt, seg, summ, meta, useExtractive>>

\* json.load raises on a file a write left unfinished: no failure of the
\* environment is needed for the iteration to stop at "meta_read"
Forced(m, point) == m.st = "corrupt" /\ point = "meta_read"
Stops(m, point) == IF Forced(m, point) THEN NoFault ELSE Fault

\* (variant) the except clause leaves the loop
AfterExceptionAbort(q) == <<>>
\* what the except clause of the loop does with the rest of the batch
\* transcriber.py:74-76, summarizer.py:106-108: continue
AfterException(q) == Tail(q)

\* transcriber.py:47-76, one iteration of the loop
TransItem ==
    /\ Stage = "trans"
    /\ UNCHANGED chunkVars
    /\ queue # <<>>
    /\ LET i == Head(queue) IN
       IF TransSkip(i)
       THEN /\ queue' = Tail(queue)
            /\ ev' = [op |-> "trans", id |-> i, outcome |-> "skip", point |-> "none"]
            /\ UNCHANGED <<txt, seg, meta, failed, faults>>
       ELSE \/ /\ MetaPasses(meta[i])
               /\ \E t \in Texts : TransEffect(i, t, "none")
               /\ queue' = Tail(queue)
               /\ ev' = [op |-> "trans", id |-> i, outcome |-> "ok", point |-> "none"]
               /\ UNCHANGED <<failed, faults>>
            \/ \E point \in TransPoints(i), t \in Texts :
               /\ TransEffect(i, t, point)
               /\ Stops(meta[i], point)
               /\ queue' = AfterException(queue)
               /\ failed' = failed \cup {i}
               /\ ev' = [op |-> "trans", id |-> i, outcome |-> "exc", point |-> point]
    /\ UNCHANGED <<audio, summ, run, results, useExtractive, used>>

\* the process dies inside an iteration of transcriber.py:47-76
TransCrash ==
    /\ Stage = "trans"
    /\ UNCHANGED chunkVars
    /\ queue # <<>>
    /\ LET i == Head(queue) IN
       /\ ~TransSkip(i)
       /\ \E point \in TransPoints(i), t \in Texts : TransEffect(i, t, point)
                /\ ev' = [op |-> "trans", id |-> i, outcome |-> "crash", point |-> point]
    /\ Fault
    /\ Exit("crashed")
    /\ UNCHANGED <<audio, summ>>

\* transcriber.py:78
EndTrans ==
    /\ Stage = "trans"
    /\ UNCHANGED chunkVars
    /\ Return
    /\ UNCHANGED <<audio, txt, seg, summ, meta>>

\* -------------------------------------------------------------- Summarizer
\* summarizer.py:70 sorted(TRANS_DIR.glob("*.txt")), by stem
Transcripts == SortedSeq({i \in Ids : txt[i].exists})

\* (variant) the checkpoint passes over finished summaries only
SummSkipComplete(i) == summ[i] = "ok"
\* summarizer.py:78 the resume checkpoint
SummSkip(i) == summ[i] # "absent"

\* (variant) the minimum length is tested on the text as read, not stripped
TooShortRaw(f) == f.len < MinLen
\* summarizer.py:85 the minimum length, on the stripped text
\* summarizer.py:82-83 f.read().strip(): the text without the whitespace at its ends
StripLen(f) == f.len - f.pad
TooShort(f) == StripLen(f) < MinLen

\* (variant) an item falls back to the extractive path once an item has failed
StrategyPerItem(extractive) ==
    IF extractive \/ failed # {} THEN "extractive" ELSE "abstractive"
\* summarizer.py:88-92 the strategy of an item
Strategy(extractive) == IF extractive THEN "extractive" ELSE "abstractive"

\* where an iteration of the Summarizer can stop, in program order
SummOrder == <<"read", "call", "sum_open", "sum_write",
               "meta_read", "meta_open", "meta_write", "none">>
SummBefore(p, q) == Rank(SummOrder, p) < Rank(SummOrder, q)
SummPoints(i) == {"call", "sum_open", "sum_write"} \cup MetaPoints(meta[i])

\* summarizer.py:94-95
SummFile(f, point) ==
    IF SummBefore(point, "sum_write") THEN f
    ELSE IF point = "sum_write" THEN "partial"
    ELSE "ok"
\* summarizer.py:98-104
SummMeta(m, i, point) ==
    IF SummBefore(point, "meta_write") THEN m
    ELSE MetaUpdate(m, "summary_path", SummaryPath(i), point)

SummEffect(i, point) ==
    /\ summ' = [summ EXCEPT ![i] = SummFile(@, point)]
    /\ meta' = [meta EXCEPT ![i] = SummMeta(@, i, point)]

\* summarizer.py:60-71; pipeline(...) raising selects the extractive strategy
StartSumm ==
    /\ Stage = "idle"
    /\ UNCHANGED chunkVars
    /\ run' = NewRun("summ")
    /\ queue' = Transcripts
    /\ \E initFails \in BOOLEAN : useExtractive' = initFails
    /\ results' = <<>>
    /\ failed' = {}
    /\ used' = {}
    /\ ev' = [NoEv EXCEPT !.op = "start"]
    /\ UNCHANGED <<audio, txt, seg, summ, meta, faults>>

\* summarizer.py:73-108, one iteration of the loop
SummItem ==
    /\ Stage = "summ"
    /\ UNCHANGED chunkVars
    /\ queue # <<>>
    /\ LET i == Head(queue) IN
       IF SummSkip(i)
       THEN /\ queue' = Tail(queue)
            /\ ev' = [op |-> "summ", id |-> i, outcome |-> "skip", point |-> "none"]
            /\ UNCHANGED <<summ, meta, failed, used, faults>>
       ELSE \/ /\ queue' = AfterException(queue)      \* reading the transcript raised
               /\ failed' = failed \cup {i}
               /\ ev' = [op |-> "summ", id |-> i, outcome |-> "exc", point |-> "read"]
               /\ Fault
               /\ UNCHANGED <<summ, meta, used>>
            \/ /\ TooShort(txt[i])
               /\ queue' = Tail(queue)
               /\ ev' = [op |-> "summ", id |-> i, outcome |-> "short", point |-> "none"]
               /\ UNCHANGED <<summ, meta, failed, used, faults>>
            \/ /\ ~TooShort(txt[i])
               /\ MetaPasses(meta[i])
               /\ SummEffect(i, "none")
               /\ used' = used \cup {Strategy(useExtractive)}
               /\ queue' = Tail(queue)
               /\ ev' = [op |-> "summ", id |-> i, outcome |-> "ok", point |-> "none"]
               /\ UNCHANGED <<failed, faults>>
            \/ /\ ~TooShort(txt[i])
               /\ \E point \in SummPoints(i) :
                  /\ SummEffect(i, point)
                  /\ Stops(meta[i], point)
                  /\ ev' = [op |-> "summ", id |-> i, outcome |-> "exc", point |-> point]
               /\ used' = used \cup {Strategy(useExtractive)}
               /\ queue' = AfterException(queue)
               /\ failed' = failed \cup {i}
    /\ UNCHANGED <<audio, txt, seg, run, results, useExtractive>>

\* the process dies inside an iteration of summarizer.py:73-108
SummCrash ==
    /\ Stage = "summ"
    /\ UNCHANGED chunkVars
    /\ queue # <<>>
    /\ LET i == Head(queue) IN
       /\ ~SummSkip(i)
       /\ \/ /\ ev' = [op |-> "summ", id |-> i, outcome |-> "crash", point |-> "read"]
             /\ UNCHANGED <<summ, meta>>
          \/ /\ ~TooShort(txt[i])
             /\ \E point \in SummPoints(i) :
                /\ SummEffect(i, point)
                /\ ev' = [op |-> "summ", id |-> i, outcome |-> "crash", point |-> point]
    /\ Fault
    /\ Exit("crashed")
    /\ UNCHANGED <<audio, txt, seg>>

\* summarizer.py:110
EndSumm ==
    /\ Stage = "summ"
    /\ UNCHANGED chunkVars
    /\ Return
    /\ UNCHANGED <<audio, txt, seg, summ, meta>>

Next ==
    \/ StartFetch \/ FetchItem \/ FetchCrash \/ EndFetch
    \/ StartTrans \/ TransItem \/ TransCrash \/ EndTrans
    \/ StartSumm \/ SummItem \/ SummCrash \/ EndSumm

Spec == Init /\ [][Next]_vars

\* ---------------------------------------------------------------------------
\* summarizer.abstractive_summary, on its own: a text is a length, a piece of
\* it the pair <<lo, hi>> of the positions lo .. hi - 1, and a summary a
\* sequence of tokens, each a space or the words summarizing a piece.

Min(a, b) == IF a < b THEN a ELSE b

\* range(0, stop, step)
Range(stop, step) == [k \in 1..((stop + step - 1) \div step) |-> (k - 1) * step]

\* text[lo:hi] of a text of length n: a slice stops at the end of the text
Slice(n, lo, hi) == <<Min(lo, n), Min(hi, n)>>

\* (variant) the text is cut into full chunks only, its tail dropped
ChunksFullOnly(n) ==
    [k \in 1..(n \div MaxChunk) |-> <<(k - 1) * MaxChunk, k * MaxChunk>>]
\* summarizer.py:43 [text[i:i + max_chunk] for i in range(0, len(text), max_chunk)]
Chunks(n) ==
    [k \in DOMAIN Range(n, MaxChunk) |->
        Slice(n, Range(n, MaxChunk)[k], Range(n, MaxChunk)[k] + MaxChunk)]

Space == <<"space", 0, 0>>
Words(c) == <<"words", c[1], c[2]>>

\* what the collaborator may answer for a chunk: a summary of it, with or
\* without whitespace around it
SummaryTexts(c) == {<<Words(c)>>, <<Space, Words(c), Space>>}

RECURSIVE LStrip(_)
LStrip(s) == IF s # <<>> /\ Head(s) = Space THEN LStrip(Tail(s)) ELSE s
RECURSIVE RStrip(_)
RStrip(s) ==
    IF s # <<>> /\ s[Len(s)] = Space THEN RStrip(SubSeq(s, 1, Len(s) - 1)) ELSE s
\* str.strip()
Strip(s) == RStrip(LStrip(s))

\* sep.join(ss)
RECURSIVE Join(_, _)
Join(sep, ss) ==
    IF ss = <<>> THEN <<>>
    ELSE IF Len(ss) = 1 THEN ss[1]
    ELSE ss[1] \o sep \o Join(sep, Tail(ss))

\* abstractive_summary is called on a text of any length up to MaxTextLen
InitChunk ==
    /\ InitPipeline
    /\ text \in 0..MaxTextLen
    /\ chunks = <<>>
    /\ summaries = <<>>
    /\ calls = <<>>
    /\ joined = <<>>
    /\ at = "called"

\* lines 42-44: the chunks and the empty list of summaries
MakeChunks ==
    /\ at = "called"
    /\ chunks' = Chunks(text)
    /\ summaries' = <<>>
    /\ at' = "loop"
    /\ UNCHANGED <<pipeVars, text, calls, joined>>

\* lines 45-48: the collaborator summarizes the next chunk
SummarizeChunk ==
    /\ at = "loop"
    /\ Len(summaries) < Len(chunks)
    /\ LET chunk == chunks[Len(summaries) + 1] IN
         \E summary \in SummaryTexts(chunk) :
            /\ calls' = Append(calls, chunk)
            /\ summaries' = Append(summaries, Strip(summary))
    /\ UNCHANGED <<pipeVars, text, chunks, joined, at>>

\* lines 45-47: the collaborator raises; nothing in the function catches it
SummarizeRaises ==
    /\ at = "loop"
    /\ Len(summaries) < Len(chunks)
    /\ calls' = Append(calls, chunks[Len(summaries) + 1])
    /\ at' = "raised"
    /\ UNCHANGED <<pipeVars, text, chunks, summaries, joined>>

\* line 49: return " ".join(summaries)
ReturnJoined ==
    /\ at = "loop"
    /\ Len(summaries) = Len(chunks)
    /\ joined' = Join(<<Space>>, summaries)
    /\ at' = "returned"
    /\ UNCHANGED <<pipeVars, text, chunks, summaries, calls>>

NextChunk == MakeChunks \/ SummarizeChunk \/ SummarizeRaises \/ ReturnJoined

SpecChunk == InitChunk /\ [][NextChunk]_vars

\* ================================================================= claims
Files == <<audio, txt, seg, summ, meta>>
PathKeys == {"audio_path", "transcript_path", "summary_path"}
AllKeys == {"video_id", "title", "webpage_url", "duration"} \cup PathKeys
\* the record file is a JSON object whose field k holds a path
FieldSet(m, k) == m.st = "ok" /\ HasKey(m.kv, k) /\ Get(m.kv, k) # Null
\* the running loop has visited every item of its enumeration
LoopOver == run.how = "running" /\ queue = <<>>
\* everything the Transcriber (the Summarizer) produces for id i is there
TransComplete(i) ==
    /\ txt[i].complete
    /\ seg[i] = "ok"
    /\ meta[i].st # "absent" => FieldSet(meta[i], "transcript_path")
SummComplete(i) ==
    /\ summ[i] = "ok"
    /\ meta[i].st # "absent" => FieldSet(meta[i], "summary_path")

\* ---- C1
\* C1 (the claim as stated, for the steps that run to their end): a step that
\* neither raises nor dies keeps every path field that is set in a Metadata
\* Record set, keeps the record a record, and keeps its video_id.
C1_AppendOnly ==
    [][ev'.outcome \notin {"exc", "crash"} =>
        \A i \in Ids :
            /\ \A k \in PathKeys : FieldSet(meta[i], k) => FieldSet(meta'[i], k)
            /\ meta[i].st = "ok" =>
                  /\ meta'[i].st = "ok"
                  /\ Get(meta'[i].kv, "video_id") = Get(meta[i].kv, "video_id")]_vars

\* ---- C2
\* C2 (the claim as stated): in a run that directly follows a completed run of
\* the same stage, every item is skipped by an existence check and no file is
\* written; for the Fetcher, on an item whose record and mp3 are there.
C2_AnyStageIdempotent ==
    [][(/\ run.how = "running"
        /\ run.prev \in {"clean", "failed"}
        /\ queue # <<>>
        /\ run.kind = "fetch" =>
              /\ Head(queue) # NoneEntry
              /\ meta[Head(queue)].st = "ok"
              /\ "mp3" \in audio[Head(queue)])
       => (ev'.outcome = "skip" /\ UNCHANGED Files)]_vars

\* C2 (amended): a Transcriber or Summarizer run that directly follows a run
\* of the same stage in which no iteration failed calls no collaborator and
\* writes no file: each item is skipped by the existence check or, in the
\* Summarizer, by the minimum length (or stops reading its transcript).
C2_RerunWritesNothing ==
    [][(/\ run.how = "running"
        /\ run.kind \in {"trans", "summ"}
        /\ run.prev = "clean"
        /\ queue # <<>>)
       => /\ UNCHANGED Files
          /\ \/ ev'.outcome = "skip"
             \/ run.kind = "summ" /\ ev'.outcome = "short"
             \/ run.kind = "summ" /\ ev'.point = "read"]_vars

\* a second Transcriber run in a row has just skipped an item
C2_Witness ==
    /\ run.kind = "trans" /\ run.how = "running" /\ run.prev = "clean"
    /\ ev.op = "trans" /\ ev.outcome = "skip"
    /\ TransComplete(ev.id)

\* ---- C3
\* C3: while the Transcriber runs, an id whose text file exists keeps its text
\* file, its segment file and its record as they are, and the iteration that
\* visits it is a skip: the speech collaborator is not called for it.
C3_ResumeCheckpoint ==
    [][(run.kind = "trans" /\ run.how = "running") =>
        \A x \in Ids : txt[x].exists =>
            /\ txt'[x] = txt[x] /\ seg'[x] = seg[x] /\ meta'[x] = meta[x]
            /\ (ev'.op = "trans" /\ ev'.id = x) => ev'.outcome = "skip"]_vars

\* the Transcriber has just skipped an id that has its text file, no segment
\* file and no transcript_path in its record
C3_Witness ==
    /\ ev.op = "trans" /\ ev.outcome = "skip"
    /\ txt[ev.id].exists /\ seg[ev.id] = "absent"
    /\ meta[ev.id].st = "ok" /\ ~HasKey(meta[ev.id].kv, "transcript_path")

\* ---- C4
\* C4: an iteration of the Transcriber (the Summarizer) that runs to its end on
\* an item whose record exists leaves a record that has transcript_path
\* (summary_path) set to the item's path and every other field as it was:
\* no field added, none dropped, none changed.
C4_NonDestructiveUpdate ==
    [][(/\ ev'.op \in {"trans", "summ"}
        /\ ev'.outcome = "ok"
        /\ meta[ev'.id].st = "ok")
       => LET i == ev'.id
              key == IF ev'.op = "trans" THEN "transcript_path" ELSE "summary_path"
              val == IF ev'.op = "trans" THEN TranscriptPath(i) ELSE SummaryPath(i)
          IN /\ meta'[i].st = "ok"
             /\ HasKey(meta'[i].kv, key)
             /\ Get(meta'[i].kv, key) = val
             /\ \A k \in AllKeys \ {key} :
                   /\ HasKey(meta'[i].kv, k) <=> HasKey(meta[i].kv, k)
                   /\ HasKey(meta[i].kv, k) =>
                         Get(meta'[i].kv, k) = Get(meta[i].kv, k)]_vars

\* the Summarizer has just completed an item whose record holds all three paths
C4_Witness ==
    /\ ev.op = "summ" /\ ev.outcome = "ok"
    /\ \A k \in PathKeys : FieldSet(meta[ev.id], k)
    /\ Get(meta[ev.id].kv, "title") = Title(ev.id)

\* ---- C5
\* C5 (the claim as stated): when a run that follows a run of the same stage
\* that died on item c has visited every item and none raised, c is as an
\* uninterrupted run leaves it: text, segments and transcript_path (summary
\* and summary_path, for a transcript of the minimum length).
C5_CrashRecoverable ==
    (LoopOver /\ run.prev = "crashed" /\ run.crashId # 0 /\ failed = {}) =>
        /\ run.kind = "trans" => TransComplete(run.crashId)
        /\ (run.kind = "summ" /\ ~TooShort(txt[run.crashId])) =>
              SummComplete(run.crashId)

\* ---- C6
\* C6 (the claim as stated, for the audio files the Fetcher recorded): when a
\* Transcriber run in which nothing raised has visited every item, every id
\* that has an audio file, of any extension, named by the audio_path of its
\* record has its transcript text file.
C6_EveryAudioTranscribed ==
    (LoopOver /\ run.kind = "trans" /\ failed = {}) =>
        \A i \in Ids :
            (audio[i] # {} /\ FieldSet(meta[i], "audio_path")) => txt[i].exists

\* ---- C7
\* C7 (the claim as stated): an iteration of the Fetcher whose retrieval failed
\* writes no Metadata Record, adds no Audio Artifact and adds nothing to the
\* result.
C7_FailedItemLeavesNothing ==
    [][(ev'.op = "fetch" /\ ev'.outcome \in {"silent", "exc"}) =>
        (meta' = meta /\ audio' = audio /\ results' = results)]_vars

\* ---- C8
\* C8: when the loop of the Transcriber (the Summarizer) is over, every item of
\* its enumeration was visited, whatever raised on the way: each mp3 either
\* raised in this run or has its text file; each transcript either raised in
\* this run, has its summary file, or is under the minimum length.
C8_BatchNotAborted ==
    LoopOver =>
        /\ run.kind = "trans" =>
              \A i \in Ids : "mp3" \in audio[i] => (i \in failed \/ txt[i].exists)
        /\ run.kind = "summ" =>
              \A i \in Ids : txt[i].exists =>
                  (i \in failed \/ summ[i] # "absent"
                     \/ txt[i].len - txt[i].pad < MinLen)

\* the Transcriber loop is over: item 1 raised, item 2 after it was transcribed
C8_Witness ==
    /\ LoopOver /\ run.kind = "trans"
    /\ failed = {1}
    /\ ev.op = "trans" /\ ev.id = 2 /\ ev.outcome = "ok"
    /\ txt[2].complete /\ seg[2] = "ok"

\* ---- C9
\* C9: an iteration of the Transcriber (the Summarizer) that runs to its end on
\* an item with no Metadata Record file writes the text and segment files
\* (the summary file) and leaves the item without a Metadata Record file.
C9_NoImplicitRecord ==
    [][(/\ ev'.op \in {"trans", "summ"}
        /\ ev'.outcome = "ok"
        /\ meta[ev'.id].st = "absent")
       => /\ meta'[ev'.id].st = "absent"
          /\ ev'.op = "trans" => (txt'[ev'.id].complete /\ seg'[ev'.id] = "ok")
          /\ ev'.op = "summ" => summ'[ev'.id] = "ok"]_vars

\* the Transcriber has just transcribed an item that has no record file
C9_Witness ==
    /\ ev.op = "trans" /\ ev.outcome = "ok"
    /\ meta[ev.id].st = "absent"
    /\ txt[ev.id].complete /\ seg[ev.id] = "ok"

\* ---- C10
\* C10: in a Summarizer run, the strategies invoked so far are at most one, and
\* it is the extractive one exactly when the abstractive summarizer could not
\* be initialized.
C10_OneStrategyPerRun ==
    (run.kind = "summ" /\ run.how = "running") =>
        /\ Cardinality(used) <= 1
        /\ used \subseteq {IF useExtractive THEN "extractive" ELSE "abstractive"}

\* an extractive run: item 1 raised, item 2 after it was summarized
C10_Witness ==
    /\ run.kind = "summ" /\ run.how = "running" /\ useExtractive
    /\ failed = {1}
    /\ ev.op = "summ" /\ ev.id = 2 /\ ev.outcome = "ok"
    /\ used = {"extractive"}

\* ---- C11
\* C11: an iteration of the Summarizer that has read the transcript of an item
\* without a summary file: when the text without the whitespace at its ends
\* has fewer than 100 characters, it calls no summarization strategy, writes
\* no summary file, leaves every Metadata Record as it is and does not enter
\* the except clause; when it has 100 or more, it calls the run's strategy,
\* and writes the summary file if nothing stops it.
C11_MinimumLengthSkip ==
    [][(/\ ev'.op = "summ"
        /\ ev'.point # "read"
        /\ summ[ev'.id] = "absent")
       => LET i == ev'.id IN
          IF txt[i].len - txt[i].pad < 100
          THEN /\ ev'.outcome = "short"
               /\ summ' = summ /\ meta' = meta
               /\ used' = used /\ failed' = failed
          ELSE /\ ev'.outcome \in {"ok", "exc", "crash"}
               /\ ev'.outcome = "ok" => summ'[i] = "ok"
               /\ ev'.outcome = "exc" => used' # {}]_vars

\* the Summarizer has just passed over a transcript of 100 characters, 99
\* without the whitespace at its ends, whose record exists
C11_Witness ==
    /\ ev.op = "summ" /\ ev.outcome = "short"
    /\ txt[ev.id].complete /\ txt[ev.id].len = 100 /\ txt[ev.id].pad = 1
    /\ summ[ev.id] = "absent" /\ meta[ev.id].st = "ok"

ItemState(a, t, s) ==
    IF s # "absent" THEN 3 ELSE IF t.exists THEN 2 ELSE IF a # {} THEN 1 ELSE 0

\* C13: from empty data directories, under any sequence of stage runs, for
\* every id a summary file exists only if the transcript text file exists
\* and the text file only if an audio file exists; no step removes an audio
\* file, a text file or a summary file, and a step leaves each item where it
\* was or moves it to the next state of unseen, fetched, transcribed,
\* summarized.
C13_PerItemStateMachine ==
    /\ [](\A i \in Ids :
            /\ summ[i] # "absent" => txt[i].exists
            /\ txt[i].exists => audio[i] # {})
    /\ [][\A i \in Ids :
            /\ audio[i] \subseteq audio'[i]
            /\ txt[i].exists => txt'[i].exists
            /\ summ[i] # "absent" => summ'[i] # "absent"
            /\ ItemState(audio'[i], txt'[i], summ'[i])
                 \in {ItemState(audio[i], txt[i], summ[i]),
                      ItemState(audio[i], txt[i], summ[i]) + 1}]_vars

\* one item is summarized while the other is fetched and not transcribed
C13_Witness ==
    \E i, j \in Ids :
        /\ summ[i] = "ok" /\ txt[i].complete /\ "mp3" \in audio[i]
        /\ audio[j] # {} /\ ~txt[j].exists

\* ---- C14
\* C14: a step of a Fetcher run changes no transcript file and no summary
\* file; a step of a Transcriber run changes no audio file and no summary
\* file, and no text file that exists; a step of a Summarizer run changes no
\* audio file and no transcript file, and no summary file that exists.
C14_ProducerOnlyCreatedOnce ==
    [][/\ run.kind = "fetch" /\ run.how = "running"
            => txt' = txt /\ seg' = seg /\ summ' = summ
       /\ run.kind = "trans" /\ run.how = "running"
            => /\ audio' = audio /\ summ' = summ
               /\ \A i \in Ids : txt[i].exists => txt'[i] = txt[i]
       /\ run.kind = "summ" /\ run.how = "running"
            => /\ audio' = audio /\ txt' = txt /\ seg' = seg
               /\ \A i \in Ids : summ[i] # "absent" => summ'[i] = summ[i]]_vars

\* a Summarizer run has just passed over an item whose summary file an
\* earlier run left unfinished
C14_Witness ==
    /\ ev.op = "summ" /\ ev.outcome = "skip"
    /\ summ[ev.id] = "partial" /\ txt[ev.id].exists

\* ---- C15
\* C15: an iteration of the Fetcher whose retrieval did not raise, and which
\* the process survives, writes the Metadata Record of the item and appends
\* it to the results, whether or not there is an audio file, and does not
\* enter the except clause; the record's audio_path is <id>.mp3 when that
\* file is there, else a file <id>.<ext> that is there, else null.
C15_AudioLookup ==
    [][(ev'.op = "fetch" /\ ev'.id \in Ids /\ ev'.outcome \notin {"exc", "crash"})
       => LET i == ev'.id
              exts == audio'[i]
              path == Get(meta'[i].kv, "audio_path")
          IN  /\ meta'[i].st = "ok"
              /\ HasKey(meta'[i].kv, "audio_path")
              /\ IF "mp3" \in exts THEN path = <<"audio", i, "mp3">>
                 ELSE IF exts # {} THEN \E e \in exts : path = <<"audio", i, e>>
                 ELSE path = <<"null", 0, "">>
              /\ results' = Append(results, meta'[i].kv)
              /\ failed' = failed]_vars

\* the retrieval left <id>.webm and no <id>.mp3, and the record names it
C15_Witness ==
    /\ ev.op = "fetch" /\ ev.outcome = "ok"
    /\ audio[ev.id] = {"webm"}
    /\ meta[ev.id].st = "ok"
    /\ Get(meta[ev.id].kv, "audio_path") = <<"audio", ev.id, "webm">>
    /\ results # <<>>

\* ---- C16
\* the transcript of id i and its record agree: the text file is there
\* exactly when the segment file is, and a record beside a text file has
\* transcript_path set
TranscriptConsistent(t, s, m) ==
    /\ t.exists <=> s # "absent"
    /\ (t.exists /\ m.st # "absent") => FieldSet(m, "transcript_path")

\* C16: an iteration of the Transcriber that the process survives, on an
\* item whose record is absent or readable, and in which nothing fails up to
\* the end of the text-file write, leaves the
\* transcript and the record of its item in agreement when they were in
\* agreement before it, also when a later step of it (the segment-file
\* write, the read or the write of the record) fails; hence so does a run.
C16_TranscriptConsistent ==
    [][(/\ ev'.op = "trans"
        /\ ev'.outcome # "crash"
        /\ TransBefore("txt_write", ev'.point)
        /\ meta[ev'.id].st # "corrupt"
        /\ TranscriptConsistent(txt[ev'.id], seg[ev'.id], meta[ev'.id]))
       => TranscriptConsistent(txt'[ev'.id], seg'[ev'.id], meta'[ev'.id])]_vars
====
